---- MODULE Spec2Model ----
(***************************************************************************)
(* gracekill (src/src/main.rs): send SIGTERM to a list of process ids,     *)
(* poll their liveness every 100 ms until all have exited or the grace     *)
(* period has elapsed, then send SIGKILL to the ones still running.        *)
(*                                                                         *)
(* Text is a sequence of one-character strings.  A u32 / u64 value is kept *)
(* as its canonical decimal digits (a sequence of 0..9 without leading     *)
(* zeros), because u32 values above 2^31-1 do not fit TLC's integers; it   *)
(* becomes an integer only where the code narrows it to i32.               *)
(* Time is counted in units of the poll interval (100 ms).                 *)
(* The operating system is a table of processes; a process may exit, or    *)
(* change the credentials that decide whether the caller may signal it, at *)
(* any moment.  Process ids are not reused during a run.                   *)
(***************************************************************************)
EXTENDS Integers, Sequences, FiniteSets, TLC

\* ------------------------------------------------------------------ text

DigitChars == <<"0", "1", "2", "3", "4", "5", "6", "7", "8", "9">>

IsDigitChar(c) == \E k \in 1..10 : DigitChars[k] = c

DigitVal(c) == (CHOOSE k \in 1..10 : DigitChars[k] = c) - 1

RECURSIVE StripZeros(_)
StripZeros(ds) ==
    IF Len(ds) > 1 /\ Head(ds) = 0 THEN StripZeros(Tail(ds)) ELSE ds

\* numeric order on canonical digit sequences
RECURSIVE LexLeq(_, _)
LexLeq(a, b) ==
    IF a = <<>> THEN TRUE
    ELSE IF Head(a) # Head(b) THEN Head(a) < Head(b)
    ELSE LexLeq(Tail(a), Tail(b))

DigitsLeq(a, b) ==
    IF Len(a) # Len(b) THEN Len(a) < Len(b) ELSE LexLeq(a, b)

RECURSIVE DigitsToInt(_)
DigitsToInt(ds) ==
    IF ds = <<>> THEN 0
    ELSE DigitsToInt(SubSeq(ds, 1, Len(ds) - 1)) * 10 + ds[Len(ds)]

U32MaxDigits == <<4, 2, 9, 4, 9, 6, 7, 2, 9, 5>>

U64MaxDigits == <<1, 8, 4, 4, 6, 7, 4, 4, 0, 7, 3, 7, 0, 9, 5, 5, 1, 6, 1, 5>>

I32MaxDigits == <<2, 1, 4, 7, 4, 8, 3, 6, 4, 7>>

\* the Err of a parse: no digit sequence
ParseErr == <<-1>>

\* str::parse for an unsigned integer type whose maximum is max: an optional
\* leading "+", then one or more decimal digits, no other character, and the
\* value must not exceed max.
ParseUnsigned(s, max) ==
    LET body == IF s # <<>> /\ Head(s) = "+" THEN Tail(s) ELSE s
    IN  IF body = <<>> \/ \E k \in 1..Len(body) : ~IsDigitChar(body[k])
        THEN ParseErr
        ELSE LET ds == StripZeros([k \in 1..Len(body) |-> DigitVal(body[k])])
             IN  IF DigitsLeq(ds, max) THEN ds ELSE ParseErr

StartsWith(s, p) == Len(s) >= Len(p) /\ SubSeq(s, 1, Len(p)) = p

StripPrefix(s, p) == SubSeq(s, Len(p) + 1, Len(s))

Contains(s, c) == \E k \in 1..Len(s) : s[k] = c

RECURSIVE SplitOn(_, _, _, _)
SplitOn(s, c, cur, out) ==
    IF s = <<>> THEN Append(out, cur)
    ELSE IF Head(s) = c THEN SplitOn(Tail(s), c, <<>>, Append(out, cur))
    ELSE SplitOn(Tail(s), c, Append(cur, Head(s)), out)

Split(s, c) == SplitOn(s, c, <<>>, <<>>)

RECURSIVE TrimStart(_)
TrimStart(s) == IF s # <<>> /\ Head(s) = " " THEN TrimStart(Tail(s)) ELSE s

RECURSIVE TrimEnd(_)
TrimEnd(s) ==
    IF s # <<>> /\ s[Len(s)] = " " THEN TrimEnd(SubSeq(s, 1, Len(s) - 1)) ELSE s

Trim(s) == TrimEnd(TrimStart(s))

\* ------------------------------------------------------- argument parsing

DEFAULT_GRACE_SECONDS == 25

RECURSIVE IntToDigits(_)
IntToDigits(n) ==
    IF n < 10 THEN <<n>> ELSE Append(IntToDigits(n \div 10), n % 10)

OptG == <<"-", "g">>

OptGraceSeconds ==
    <<"-", "-", "g", "r", "a", "c", "e", "-", "s", "e", "c", "o", "n", "d", "s">>

OptGraceSecondsEq == Append(OptGraceSeconds, "=")

OptExitNonZero ==
    <<"-", "-", "e", "x", "i", "t", "-", "n", "o", "n", "-", "z", "e", "r", "o",
      "-", "i", "f", "-", "s", "i", "g", "k", "i", "l", "l", "-",
      "r", "e", "q", "u", "i", "r", "e", "d">>

parse_and_validate_pid_nozero(pid_str) == ParseUnsigned(pid_str, U32MaxDigits)

parse_and_validate_pid(pid_str) ==
    LET pid == ParseUnsigned(pid_str, U32MaxDigits)
    IN  IF pid = ParseErr THEN ParseErr
        ELSE IF pid = <<0>> THEN ParseErr
        ELSE pid

\* pids.push(pid), and the same with duplicates dropped
Push_dedup(v, x) == IF \E k \in 1..Len(v) : v[k] = x THEN v ELSE Append(v, x)

Push(v, x) == Append(v, x)

\* the for loop over the pid strings of one argument; the first error ends it
RECURSIVE ParsePidStrings(_, _)
ParsePidStrings(strs, pids) ==
    IF strs = <<>> THEN [ok |-> TRUE, pids |-> pids]
    ELSE LET pid == parse_and_validate_pid(Head(strs))
         IN  IF pid = ParseErr THEN [ok |-> FALSE, pids |-> pids]
             ELSE ParsePidStrings(Tail(strs), Push(pids, pid))

PidStrings(arg) ==
    IF Contains(arg, ",")
    THEN LET parts == Split(arg, ",")
         IN  [k \in 1..Len(parts) |-> Trim(parts[k])]
    ELSE <<arg>>

ArgsErr == [ok |-> FALSE, pids |-> <<>>, grace_seconds |-> <<0>>, flag |-> FALSE]

\* the while loop of parse_args, from index i with the accumulated state
RECURSIVE ParseArgsFrom(_, _, _, _, _)
ParseArgsFrom(args, i, pids, grace_seconds, flag) ==
    IF i > Len(args)
    THEN [ok |-> TRUE, pids |-> pids, grace_seconds |-> grace_seconds, flag |-> flag]
    ELSE LET arg == args[i] IN
         IF arg = OptG \/ arg = OptGraceSeconds
         THEN IF i + 1 > Len(args) THEN ArgsErr
              ELSE LET g == ParseUnsigned(args[i + 1], U64MaxDigits)
                   IN  IF g = ParseErr THEN ArgsErr
                       ELSE ParseArgsFrom(args, i + 2, pids, g, flag)
         ELSE IF StartsWith(arg, OptGraceSecondsEq)
         THEN LET g == ParseUnsigned(StripPrefix(arg, OptGraceSecondsEq), U64MaxDigits)
              IN  IF g = ParseErr THEN ArgsErr
                  ELSE ParseArgsFrom(args, i + 1, pids, g, flag)
         ELSE IF arg = OptExitNonZero
         THEN ParseArgsFrom(args, i + 1, pids, grace_seconds, TRUE)
         ELSE IF StartsWith(arg, <<"-">>) THEN ArgsErr
         ELSE LET r == ParsePidStrings(PidStrings(arg), pids)
              IN  IF ~r.ok THEN ArgsErr
                  ELSE ParseArgsFrom(args, i + 1, r.pids, grace_seconds, flag)

parse_args(args) ==
    ParseArgsFrom(args, 1, <<>>, IntToDigits(DEFAULT_GRACE_SECONDS), FALSE)

\* ------------------------------------------------------------ the system

\* one model time unit is the poll interval, thread::sleep(100 ms)
PollInterval == 1

\* Duration::from_secs: seconds in poll intervals
UnitsPerSecond == 10

\* how far the clock may run past the grace deadline
MaxOvershoot == 2

\* the process ids the operating system's process table may hold
ProcessTable == {1, 2}

VARIABLES
    args,            \* env::args() without the program name
    pc,              \* position of main
    pids,            \* parse_args: the target list (u32 values)
    grace_period,    \* parse_args: the grace duration, in poll intervals
    exit_non_zero_if_sigkill_required,
    idx,             \* position of the running loop over a list
    acc,             \* successful_pids / the elements kept by retain or filter
    remaining,       \* the survivors
    still_running,   \* the stragglers found running by the re-check
    elapsed,         \* start.elapsed(), in poll intervals
    exit_code,       \* process::exit status; -1 while running
    proc,            \* OS: pid -> "running" | "gone"
    perm,            \* OS: pid -> may the caller signal this process
    calls,           \* history: the kill(2) calls made, with their results
    nsent,           \* history: number of send_signal calls per signal
    sent,            \* history: the send_signal calls, in order
    rechecked,       \* history: the results of the re-check, in order
    logged,          \* history: the lines written by log()
    deadlineSeen,    \* history: the loop condition found elapsed >= grace
    deadlineLive,    \* history: the processes running when the deadline passed
    twin             \* a second run of main set beside this one, if any

vars == <<args, pc, pids, grace_period, exit_non_zero_if_sigkill_required, idx,
          acc, remaining, still_running, elapsed, exit_code, proc, perm, calls,
          nsent, sent, rechecked, logged, deadlineSeen, deadlineLive, twin>>

\* ------------------------------------------------------------ the inputs

S_g0 == <<OptG, <<"0">>>>
S_g1 == <<OptG, <<"1">>>>
S_long0 == <<OptGraceSeconds, <<"0">>>>
S_eq1 == <<OptGraceSecondsEq \o <<"1">>>>
S_flag == <<OptExitNonZero>>

\* option prefixes of the runs that reach orchestration
RunOptions ==
    { S_g0, S_g1, S_g1 \o S_flag, S_long0 \o S_flag }

\* pid arguments that parse
GoodPidArgs ==
    { << <<"1">> >>,
      << <<"1">>, <<"2">> >>,
      << <<"2", ",", " ", "1">> >>,
      << <<"1", ",", "1">> >>,
      << <<"+", "0", "2">>, <<"2", "1", "4", "7", "4", "8", "3", "6", "4", "8">> >> }

\* pid arguments holding an identifier that is zero or does not parse
BadPidArgs ==
    { << <<"0">> >>,
      << <<"0", "0">> >>,
      << <<"+", "0">> >>,
      << <<"1">>, <<"0">> >>,
      << <<"1", ",", "0">> >>,
      << <<"0", ",", "1">> >>,
      << <<"1", ",", " ", "0">> >>,
      << <<"1", ",">> >>,
      << <<" ", "1">> >>,
      << <<"4", "2", "9", "4", "9", "6", "7", "2", "9", "6">>, <<"1">> >> }

\* argument lists without any pid, or with a malformed option
NoPidArgs ==
    { <<>>, S_g1, S_flag, S_eq1 \o S_flag, <<OptG>>,
      <<OptG, <<"-", "1">>, <<"1">>>>,
      <<OptGraceSecondsEq \o <<"x">>, <<"1">>>>,
      <<<<"-", "0">>>>,
      <<OptG, <<"1", "8", "4", "4", "6", "7", "4", "4", "0", "7",
                 "3", "7", "0", "9", "5", "5", "1", "6", "1", "6">>, <<"1">>>> }

ArgvPool ==
    { o \o p : o \in RunOptions, p \in GoodPidArgs }
    \cup { << <<"1">> >>, S_eq1 \o << <<"2">> >>, S_flag \o S_g0 \o << <<"1">> >> }
    \cup { o \o p : o \in {<<>>, S_g0, S_flag}, p \in BadPidArgs }
    \cup NoPidArgs

\* ------------------------------------------------------- the OS primitive

\* kill(2) for a process id that fits pid_t.  pid 0 addresses the caller's own
\* process group, which always exists.  With a valid signal number kill(2) fails
\* only with ESRCH or EPERM, so the catch-all arm of send_signal is never taken.
KillResult(p) ==
    IF p = 0 THEN "OK"
    ELSE IF p \notin ProcessTable \/ proc[p] = "gone" THEN "ESRCH"
    ELSE IF ~perm[p] THEN "EPERM"
    ELSE "OK"

\* i32::try_from(pid): the integer, or -1 when pid exceeds i32::MAX
I32TryFrom(pid) == IF DigitsLeq(pid, I32MaxDigits) THEN DigitsToInt(pid) ELSE -1

\* send_signal: the Result, by the message of its Err
send_signal(pid) ==
    LET p == I32TryFrom(pid)
    IN  IF p < 0 THEN "PID too large for system"
        ELSE LET r == KillResult(p)
             IN  IF r = "OK" THEN "Ok"
                 ELSE IF r = "ESRCH" THEN "Process not found"
                 ELSE "Permission denied"

is_process_running_always(pid) == TRUE

is_process_running(pid) ==
    LET p == I32TryFrom(pid)
    IN  IF p < 0 THEN FALSE ELSE KillResult(p) = "OK"

\* the kill(2) call a send_signal or is_process_running of pid makes, if any
Syscall(sig, pid, at) ==
    LET p == I32TryFrom(pid)
    IN  IF p < 0 THEN {}
        ELSE {[sig |-> sig, pid |-> p, res |-> KillResult(p), at |-> at]}

\* ----------------------------------------------------------------- Init

\* process start, with the argument list drawn from pool
InitRun(pool) ==
    /\ args \in pool
    /\ pc = "parse"
    /\ pids = <<>>
    /\ grace_period = 0
    /\ exit_non_zero_if_sigkill_required = FALSE
    /\ idx = 1
    /\ acc = <<>>
    /\ remaining = <<>>
    /\ still_running = <<>>
    /\ elapsed = 0
    /\ exit_code = -1
    /\ proc \in [ProcessTable -> {"running", "gone"}]
    /\ perm \in [ProcessTable -> BOOLEAN]
    /\ \A p \in ProcessTable : proc[p] = "gone" => perm[p]
    /\ calls = {}
    /\ nsent = [SIGTERM |-> 0, SIGKILL |-> 0]
    /\ sent = <<>>
    /\ rechecked = <<>>
    /\ logged = {}
    /\ deadlineSeen = FALSE
    /\ deadlineLive = {}

Init ==
    /\ InitRun(ArgvPool)
    /\ twin = [turn |-> "off"]

\* the run is on its own: no second run is set beside it
Alone == UNCHANGED twin

Running == {p \in ProcessTable : proc[p] = "running"}

\* process::exit(code)
ProcessExit(code) ==
    /\ pc' = "done"
    /\ exit_code' = code

OsUnchanged == UNCHANGED <<proc, perm>>

ParsedUnchanged ==
    UNCHANGED <<args, pids, grace_period, exit_non_zero_if_sigkill_required>>

\* ----------------------------------------------------------------- main

\* main, lines 31-34: the target list is empty
NoPidsProvided_never(ps) == FALSE

NoPidsProvided(ps) == ps = <<>>

\* main, lines 15-40: read the arguments, reject a run without targets
MainParse ==
    /\ pc = "parse"
    /\ LET r == parse_args(args) IN
         IF Len(args) + 1 < 2 \/ ~r.ok \/ NoPidsProvided(r.pids)
         THEN /\ ProcessExit(1)
              /\ logged' = logged \cup
                     IF Len(args) + 1 >= 2 /\ r.ok
                     THEN {<<"Error: No PIDs provided", <<>>>>}
                     ELSE {<<"usage", <<>>>>}
              /\ UNCHANGED <<pids, grace_period, exit_non_zero_if_sigkill_required>>
         ELSE /\ pids' = r.pids
              /\ grace_period' = DigitsToInt(r.grace_seconds) * UnitsPerSecond
              /\ exit_non_zero_if_sigkill_required' = r.flag
              /\ logged' = logged \cup {<<"Starting graceful kill", <<>>>>}
              /\ pc' = "term"
              /\ UNCHANGED exit_code
    /\ idx' = 1
    /\ acc' = <<>>
    /\ OsUnchanged
    /\ UNCHANGED <<args, remaining, still_running, elapsed, calls, nsent,
                   deadlineSeen, deadlineLive,
                   sent, rechecked>>

\* send_signal_to_all, lines 134-142: which pids are pushed to successful_pids
Successful_always(result) == TRUE

Successful(result) == result = "Ok"

\* send_signal_to_all, line 133: the for loop moves on after every attempt
NextTarget_retry(i, result) == IF result = "Ok" THEN i + 1 ELSE i

NextTarget(i, result) == i + 1

\* one iteration of send_signal_to_all over list, for signal sig
SendSignalStep(list, sig, at) ==
    LET pid == list[idx]
        result == send_signal(pid)
    IN  /\ calls' = calls \cup Syscall(sig, pid, at)
        /\ nsent' = [nsent EXCEPT ![sig] = @ + 1]
        /\ sent' = Append(sent, [sig |-> sig, pid |-> pid, result |-> result])
        /\ logged' = logged \cup
               {<<(IF result = "Ok" THEN "Sent " ELSE "Failed to send ") \o sig, pid>>}
        /\ acc' = IF Successful(result) THEN Append(acc, pid) ELSE acc
        /\ idx' = NextTarget(idx, result)

\* main, line 43: send SIGTERM to the next target
SendTerm ==
    /\ pc = "term"
    /\ idx <= Len(pids)
    /\ SendSignalStep(pids, "SIGTERM", "term")
    /\ OsUnchanged
    /\ ParsedUnchanged
    /\ UNCHANGED <<pc, remaining, still_running, elapsed, exit_code,
                   deadlineSeen, deadlineLive,
                   rechecked>>

\* main, line 45: no target accepted the cooperative signal
NoneSignalled_never(active_pids) == FALSE

NoneSignalled(active_pids) == active_pids = <<>>

\* main, lines 45-52: nothing signalled ends the run, otherwise the wait starts
StartWait ==
    /\ pc = "term"
    /\ idx > Len(pids)
    /\ IF NoneSignalled(acc)
       THEN /\ ProcessExit(2)
            /\ logged' = logged \cup {<<"No processes to wait for", <<>>>>}
            /\ UNCHANGED <<remaining, deadlineLive>>
       ELSE /\ remaining' = acc
            /\ pc' = "loop"
            /\ deadlineLive' = IF grace_period = 0 THEN Running ELSE deadlineLive
            /\ UNCHANGED <<exit_code, logged>>
    /\ elapsed' = 0
    /\ OsUnchanged
    /\ ParsedUnchanged
    /\ UNCHANGED <<idx, acc, still_running, calls, nsent, deadlineSeen,
                   sent, rechecked>>

\* main, line 54: the condition of the poll loop
LoopCond_noDeadline == remaining # <<>> /\ elapsed < grace_period - PollInterval

LoopCond_byOption ==
    /\ remaining # <<>>
    /\ elapsed < grace_period
    /\ ~exit_non_zero_if_sigkill_required

LoopCond == remaining # <<>> /\ elapsed < grace_period

\* main, lines 90-94: the status after the forceful dispatch
EscalatedStatus_inverted == IF exit_non_zero_if_sigkill_required THEN 0 ELSE 3

EscalatedStatus_ifAnySent ==
    IF exit_non_zero_if_sigkill_required /\ still_running # <<>> THEN 3 ELSE 0

EscalatedStatus == IF exit_non_zero_if_sigkill_required THEN 3 ELSE 0

\* main, lines 54 and 67-74: evaluate the loop condition; when it fails,
\* leave with 0 if nobody is left, else go on to the re-check
LoopCheck ==
    /\ pc = "loop"
    /\ IF LoopCond
       THEN /\ pc' = "sleep"
            /\ UNCHANGED <<exit_code, logged, deadlineSeen>>
       ELSE IF remaining = <<>>
       THEN /\ ProcessExit(0)
            /\ logged' = logged \cup {<<"All processes exited gracefully", <<>>>>}
            /\ UNCHANGED deadlineSeen
       ELSE /\ pc' = "filter"
            /\ logged' = logged \cup {<<"still running after grace period", <<>>>>}
            /\ deadlineSeen' = (elapsed >= grace_period)
            /\ UNCHANGED exit_code
    /\ idx' = 1
    /\ acc' = <<>>
    /\ OsUnchanged
    /\ ParsedUnchanged
    /\ UNCHANGED <<remaining, still_running, elapsed, calls, nsent, deadlineLive,
                   sent, rechecked>>

\* the clock moves from elapsed to t: remember who is running if the deadline
\* lies in between
PassTime(t) ==
    /\ elapsed' = t
    /\ deadlineLive' =
           IF elapsed < grace_period /\ t >= grace_period THEN Running
           ELSE deadlineLive

\* the clock when thread::sleep returns
WakeTime_stuck == elapsed

WakeTime == elapsed + PollInterval

\* main, line 55: thread::sleep(100 ms)
Sleep ==
    /\ pc = "sleep"
    /\ PassTime(WakeTime)
    /\ pc' = "retain"
    /\ OsUnchanged
    /\ ParsedUnchanged
    /\ UNCHANGED <<idx, acc, remaining, still_running, exit_code, calls, nsent,
                   logged, deadlineSeen,
                   sent, rechecked>>

\* retain and filter: the element is kept when the closure returns true
Retained_twice(v, pid, keep) == IF keep THEN Append(Append(v, pid), pid) ELSE v

Retained(v, pid, keep) == IF keep THEN Append(v, pid) ELSE v

\* main, lines 56-63: the retain closure on the next survivor; after the last
\* one the survivors are the ones kept
RetainStep ==
    /\ pc = "retain"
    /\ idx <= Len(remaining)
    /\ LET pid == remaining[idx]
           keep == is_process_running(pid)
           kept == Retained(acc, pid, keep)
       IN  /\ calls' = calls \cup Syscall("NULL", pid, "poll")
           /\ logged' = IF keep THEN logged
                        ELSE logged \cup {<<"exited gracefully", pid>>}
           /\ IF idx = Len(remaining)
              THEN /\ remaining' = kept
                   /\ pc' = "loop"
                   /\ idx' = 1
                   /\ acc' = <<>>
              ELSE /\ acc' = kept
                   /\ idx' = idx + 1
                   /\ UNCHANGED <<remaining, pc>>
    /\ OsUnchanged
    /\ ParsedUnchanged
    /\ UNCHANGED <<still_running, elapsed, exit_code, nsent, deadlineSeen,
                   deadlineLive,
                   sent, rechecked>>

\* main, lines 79-86: the filter closure of the re-check
StillRunning_all(pid) == TRUE

StillRunning_inverted(pid) == ~is_process_running(pid)

StillRunning(pid) == is_process_running(pid)

\* main, lines 77-87: the re-check of the next survivor; after the last one the
\* ones found running are collected in still_running
FilterStep ==
    /\ pc = "filter"
    /\ idx <= Len(remaining)
    /\ LET pid == remaining[idx]
           keep == StillRunning(pid)
           kept == Retained(acc, pid, keep)
       IN  /\ calls' = calls \cup Syscall("NULL", pid, "recheck")
           /\ rechecked' = Append(rechecked, keep)
           /\ logged' = IF keep THEN logged
                        ELSE logged \cup {<<"exited before SIGKILL", pid>>}
           /\ IF idx = Len(remaining)
              THEN /\ still_running' = kept
                   /\ pc' = "kill"
                   /\ idx' = 1
                   /\ acc' = <<>>
              ELSE /\ acc' = kept
                   /\ idx' = idx + 1
                   /\ UNCHANGED <<still_running, pc>>
    /\ OsUnchanged
    /\ ParsedUnchanged
    /\ UNCHANGED <<remaining, elapsed, exit_code, nsent, deadlineSeen,
                   deadlineLive,
                   sent>>

\* main, line 89: send SIGKILL to the next straggler
SendKill ==
    /\ pc = "kill"
    /\ idx <= Len(still_running)
    /\ SendSignalStep(still_running, "SIGKILL", "kill")
    /\ OsUnchanged
    /\ ParsedUnchanged
    /\ UNCHANGED <<pc, remaining, still_running, elapsed, exit_code,
                   deadlineSeen, deadlineLive,
                   rechecked>>

\* main, lines 90-94: exit after the forceful dispatch
Finish ==
    /\ pc = "kill"
    /\ idx > Len(still_running)
    /\ ProcessExit(EscalatedStatus)
    /\ OsUnchanged
    /\ ParsedUnchanged
    /\ UNCHANGED <<idx, acc, remaining, still_running, elapsed, calls, nsent,
                   logged, deadlineSeen, deadlineLive,
                   sent, rechecked>>

\* ------------------------------------------------------- the environment

Waiting == pc \in {"loop", "sleep", "retain", "filter", "kill"}

SupervisorUnchanged ==
    UNCHANGED <<args, pc, pids, grace_period, exit_non_zero_if_sigkill_required,
                idx, acc, remaining, still_running, exit_code, calls, nsent,
                logged, deadlineSeen,
                   sent, rechecked>>

\* the monotonic clock advances while main is between two steps
Advance ==
    /\ Waiting
    /\ elapsed < grace_period + MaxOvershoot
    /\ PassTime(elapsed + 1)
    /\ OsUnchanged
    /\ SupervisorUnchanged

\* a target process exits
Exit(p) ==
    /\ pc \notin {"parse", "done"}
    /\ proc[p] = "running"
    /\ proc' = [proc EXCEPT ![p] = "gone"]
    /\ UNCHANGED <<perm, elapsed, deadlineLive>>
    /\ SupervisorUnchanged

\* a target process changes its credentials: the caller gains or loses the
\* right to signal it
CredChange(p) ==
    /\ pc \notin {"parse", "done"}
    /\ proc[p] = "running"
    /\ perm' = [perm EXCEPT ![p] = ~@]
    /\ UNCHANGED <<proc, elapsed, deadlineLive>>
    /\ SupervisorUnchanged

Next ==
    \/ MainParse /\ Alone
    \/ SendTerm /\ Alone
    \/ StartWait /\ Alone
    \/ LoopCheck /\ Alone
    \/ Sleep /\ Alone
    \/ RetainStep /\ Alone
    \/ FilterStep /\ Alone
    \/ SendKill /\ Alone
    \/ Finish /\ Alone
    \/ Advance /\ Alone
    \/ \E p \in ProcessTable : Exit(p) /\ Alone
    \/ \E p \in ProcessTable : CredChange(p) /\ Alone

Spec == Init /\ [][Next]_vars

\* the steps of main
SupervisorStep ==
    IF pc = "parse" THEN MainParse
    ELSE \/ SendTerm
         \/ StartWait
         \/ LoopCheck
         \/ Sleep
         \/ RetainStep
         \/ FilterStep
         \/ SendKill
         \/ Finish

\* the runs checked for termination: grace periods of zero and of one second,
\* one and two targets, a rejected target, and argument errors
LivePool ==
    { S_g1 \o << <<"1">> >>,
      S_g1 \o S_flag \o << <<"1">> >>,
      S_g0 \o << <<"1">>, <<"2">> >>,
      S_long0 \o S_flag \o << <<"1">>, <<"2">> >>,
      S_eq1 \o << <<"2">> >>,
      << <<"1">>, <<"0">> >>,
      <<OptG>>,
      S_flag,
      <<>> }

InitLive == Init /\ args \in LivePool

\* main is a running thread: it takes its next step, and its sleep returns.
\* The targets and the clock between two steps are under no obligation.
FairSpec == InitLive /\ [][Next]_vars /\ WF_vars(SupervisorStep /\ Alone)

\* ------------------------------------------------------- two runs abreast

\* what belongs to one run of main: its arguments, its locals, its records
Run ==
    [args |-> args, pc |-> pc, pids |-> pids, grace_period |-> grace_period,
     exit_non_zero_if_sigkill_required |-> exit_non_zero_if_sigkill_required,
     idx |-> idx, acc |-> acc, remaining |-> remaining,
     still_running |-> still_running, elapsed |-> elapsed,
     exit_code |-> exit_code, calls |-> calls, nsent |-> nsent, sent |-> sent,
     rechecked |-> rechecked, logged |-> logged, deadlineSeen |-> deadlineSeen,
     deadlineLive |-> deadlineLive]

\* the run r takes the place of the current one
Load(r) ==
    /\ args' = r.args
    /\ pc' = r.pc
    /\ pids' = r.pids
    /\ grace_period' = r.grace_period
    /\ exit_non_zero_if_sigkill_required' = r.exit_non_zero_if_sigkill_required
    /\ idx' = r.idx
    /\ acc' = r.acc
    /\ remaining' = r.remaining
    /\ still_running' = r.still_running
    /\ elapsed' = r.elapsed
    /\ exit_code' = r.exit_code
    /\ calls' = r.calls
    /\ nsent' = r.nsent
    /\ sent' = r.sent
    /\ rechecked' = r.rechecked
    /\ logged' = r.logged
    /\ deadlineSeen' = r.deadlineSeen
    /\ deadlineLive' = r.deadlineLive

\* argument lists without the escalation-policy option
TwinPool ==
    { S_g1 \o << <<"1">> >>,
      S_g0 \o << <<"1">>, <<"2">> >>,
      S_long0 \o << <<"1">>, <<"1">> >>,
      S_eq1 \o << <<"2">> >>,
      << <<"1">>, <<"0">> >>,
      <<OptG>>,
      <<>> }

\* two runs start at the same moment against the same targets; the second is
\* given the same arguments with the escalation-policy option added
InitTwin ==
    /\ InitRun(TwinPool)
    /\ twin = [turn |-> "sync", run |-> [Run EXCEPT !.args = S_flag \o args]]

\* the first run takes a step of main
TwinLead ==
    /\ twin.turn = "sync"
    /\ SupervisorStep
    /\ twin' = [twin EXCEPT !.turn = "stepped"]

\* the clock of the first run advances
TwinTick ==
    /\ twin.turn = "sync"
    /\ Advance
    /\ twin' = [twin EXCEPT !.turn = "ticked"]

\* the second run comes in before the targets do anything
TwinSwitch ==
    /\ twin.turn \in {"stepped", "ticked"}
    /\ Load(twin.run)
    /\ OsUnchanged
    /\ twin' = [turn |-> IF twin.turn = "stepped" THEN "follow" ELSE "followTick",
                run |-> Run]

\* the second run takes its step of main at the same moment
TwinFollow ==
    /\ twin.turn = "follow"
    /\ SupervisorStep
    /\ twin' = [twin EXCEPT !.turn = "followed"]

\* the clock of the second run advances as much
TwinFollowTick ==
    /\ twin.turn = "followTick"
    /\ Advance
    /\ twin' = [twin EXCEPT !.turn = "followed"]

\* back to the first run
TwinReturn ==
    /\ twin.turn = "followed"
    /\ Load(twin.run)
    /\ OsUnchanged
    /\ twin' = [turn |-> "sync", run |-> Run]

\* the targets behave the same for both runs
TwinExit(p) ==
    /\ twin.turn = "sync"
    /\ Exit(p)
    /\ UNCHANGED twin

TwinCredChange(p) ==
    /\ twin.turn = "sync"
    /\ CredChange(p)
    /\ UNCHANGED twin

TwinNext ==
    \/ TwinLead
    \/ TwinTick
    \/ TwinSwitch
    \/ TwinFollow
    \/ TwinFollowTick
    \/ TwinReturn
    \/ \E p \in ProcessTable : TwinExit(p)
    \/ \E p \in ProcessTable : TwinCredChange(p)

TwinSpec == InitTwin /\ [][TwinNext]_vars

\* ------------------------------------------------------------ properties

Calls(sig) == {c \in calls : c.sig = sig}

\* the process ids whose SIGTERM was delivered
TermDelivered == {c.pid : c \in {d \in Calls("SIGTERM") : d.res = "OK"}}

KillAttempted == {c.pid : c \in Calls("SIGKILL")}

KillDelivered == {c.pid : c \in {d \in Calls("SIGKILL") : d.res = "OK"}}

Probed == {c.pid : c \in Calls("NULL")}

\* the wait has begun (Instant::now() was taken)
Started == Waiting \/ (pc = "done" /\ exit_code \in {0, 3})

DeadlinePassed == Started /\ elapsed >= grace_period

\* C1: a SIGKILL is sent only when the time elapsed since the wait began has
\* reached the grace duration and the poll loop's condition has observed that
\* with survivors left.
C1_KillOnlyAfterDeadline ==
    [][nsent'.SIGKILL > nsent.SIGKILL =>
          /\ elapsed >= grace_period
          /\ deadlineSeen
          /\ remaining # <<>>]_vars

C1_Witness ==
    /\ grace_period > 0
    /\ Calls("SIGKILL") # {}
    /\ \E c \in Calls("NULL") : c.at = "poll"

\* C2: if every target that accepted SIGTERM has exited before the grace
\* deadline, no SIGKILL is ever sent; so a SIGKILL attempt implies that the
\* deadline has passed with a signalled target still running at that moment.
C2_NoKillWhenAllExitInTime ==
    (nsent.SIGKILL > 0 \/ Calls("SIGKILL") # {}) =>
        /\ DeadlinePassed
        /\ deadlineLive \cap TermDelivered # {}

C2_Witness ==
    /\ pc = "done"
    /\ DeadlinePassed
    /\ TermDelivered # {}
    /\ deadlineLive \cap TermDelivered = {}
    /\ \E c \in Calls("NULL") : c.at = "recheck"
    /\ nsent.SIGKILL = 0

\* C3: when the run ends, every target that accepted SIGTERM and has not
\* exited has had a SIGKILL sent to it.
C3_SurvivorsAreKilled ==
    (pc = "done" /\ exit_code \in {0, 3}) =>
        \A p \in TermDelivered : proc[p] = "running" => p \in KillAttempted

\* C4 as stated: no SIGKILL is sent to a target that has exited at the moment
\* of the dispatch.
C4_NeverKillExited == \A c \in Calls("SIGKILL") : c.res # "ESRCH"

\* C4, amended: a SIGKILL is sent only to a target that the pre-escalation
\* re-check reported running; a target that exits after its re-check still gets
\* the SIGKILL attempt.
C4_KillOnlyRecheckedRunning ==
    \A c \in Calls("SIGKILL") :
        \E d \in Calls("NULL") : d.at = "recheck" /\ d.pid = c.pid /\ d.res = "OK"

C4_Witness == \E c \in Calls("SIGKILL") : c.res = "ESRCH"

\* C5: only targets whose SIGTERM was delivered are liveness-probed, kept as
\* survivors or sent SIGKILL.
C5_OnlyDeliveredEscalated ==
    /\ Probed \subseteq TermDelivered
    /\ KillAttempted \subseteq TermDelivered
    /\ \A k \in 1..Len(remaining) : I32TryFrom(remaining[k]) \in TermDelivered
    /\ \A k \in 1..Len(still_running) : I32TryFrom(still_running[k]) \in TermDelivered

C5_Witness ==
    /\ \E l \in logged : l[1] = "Failed to send SIGTERM"
    /\ \E c \in Calls("SIGTERM") : c.res = "EPERM"
    /\ KillAttempted # {}

\* C6: a finished run in which a SIGKILL was delivered exits with 3 when the
\* option is set and with 0 when it is not.
C6_ForcedStatus ==
    (pc = "done" /\ KillDelivered # {}) =>
        exit_code = IF exit_non_zero_if_sigkill_required THEN 3 ELSE 0

C6_Witness ==
    /\ pc = "done"
    /\ KillDelivered # {}
    /\ exit_non_zero_if_sigkill_required
    /\ exit_code = 3

\* C7: status 3 only if a SIGKILL was delivered and the option is set; every
\* other finished run that signalled a target exits with 0.
C7_Status3OnlyIfForced ==
    pc = "done" =>
        /\ exit_code = 3 =>
               (exit_non_zero_if_sigkill_required /\ KillDelivered # {})
        /\ (TermDelivered # {}
              /\ ~(exit_non_zero_if_sigkill_required /\ KillDelivered # {}))
               => exit_code = 0

\* every SIGTERM attempt of the run has been made and none was delivered
TermAllFailed ==
    /\ pids # <<>>
    /\ nsent.SIGTERM = Len(pids)
    /\ ~\E l \in logged : l[1] = "Sent SIGTERM"

\* C8: when no target accepts SIGTERM the run ends with status 2 without
\* entering the poll loop, probing or sending SIGKILL, and reports no exit;
\* status 2 occurs in no other case.
C8_NoneSignalledStatus2 ==
    /\ TermAllFailed =>
           /\ pc = "term" \/ (pc = "done" /\ exit_code = 2)
           /\ remaining = <<>>
           /\ elapsed = 0
           /\ Probed = {}
           /\ nsent.SIGKILL = 0
           /\ ~\E l \in logged :
                  l[1] \in {"exited gracefully", "exited before SIGKILL",
                            "Sent SIGKILL", "All processes exited gracefully"}
    /\ exit_code = 2 => TermAllFailed

C8_Witness ==
    /\ pc = "done"
    /\ exit_code = 2
    /\ \E c \in Calls("SIGTERM") : c.res = "EPERM"
    /\ \E c \in Calls("SIGTERM") : c.res = "ESRCH"

\* the argument list names no target: no argument, or options only
EmptyTargetList ==
    Len(args) = 0 \/ (parse_args(args).ok /\ parse_args(args).pids = <<>>)

\* C9: a run with an empty target list ends with status 1, which is not the
\* status 2 of "no target could be signalled", and makes no kill(2) call.
C9_EmptyTargetsRejected ==
    (pc # "parse" /\ EmptyTargetList) =>
        /\ pc = "done"
        /\ exit_code = 1
        /\ exit_code # 2
        /\ calls = {}
        /\ nsent = [SIGTERM |-> 0, SIGKILL |-> 0]

C9_Witness ==
    /\ pc = "done"
    /\ Len(args) > 0
    /\ EmptyTargetList

\* some pid string of the argument list reads as zero
HasZeroPid ==
    \E i \in 1..Len(args) :
        LET strs == PidStrings(args[i])
        IN  \E k \in 1..Len(strs) : ParseUnsigned(strs[k], U32MaxDigits) = <<0>>

\* C10: no kill(2) call of any kind is made with pid 0.
C10_ZeroNeverSignalled == \A c \in calls : c.pid # 0

C10_Witness ==
    /\ pc = "done"
    /\ HasZeroPid
    /\ Len(args) > 1

\* the words of the argument list that name targets: what is left when the
\* options and the values of the grace options are taken out, lists split
RECURSIVE TargetStrings(_, _)
TargetStrings(as, i) ==
    IF i > Len(as) THEN <<>>
    ELSE IF as[i] = OptG \/ as[i] = OptGraceSeconds THEN TargetStrings(as, i + 2)
    ELSE IF StartsWith(as[i], <<"-">>) THEN TargetStrings(as, i + 1)
    ELSE PidStrings(as[i]) \o TargetStrings(as, i + 1)

\* the argument list without the words that name targets
RECURSIVE OptionWords(_, _)
OptionWords(as, i) ==
    IF i > Len(as) THEN <<>>
    ELSE IF (as[i] = OptG \/ as[i] = OptGraceSeconds) /\ i < Len(as)
    THEN <<as[i], as[i + 1]>> \o OptionWords(as, i + 2)
    ELSE IF StartsWith(as[i], <<"-">>) THEN <<as[i]>> \o OptionWords(as, i + 1)
    ELSE OptionWords(as, i + 1)

\* a decimal number, whatever its size
IsNumber(str) ==
    LET body == IF str # <<>> /\ Head(str) = "+" THEN Tail(str) ELSE str
    IN  body # <<>> /\ \A k \in 1..Len(body) : IsDigitChar(body[k])

NumberDigits(str) ==
    LET body == IF Head(str) = "+" THEN Tail(str) ELSE str
    IN  StripZeros([k \in 1..Len(body) |-> DigitVal(body[k])])

\* every target word is a number, the options are well formed
NumericTargets ==
    /\ parse_args(OptionWords(args, 1)).ok
    /\ \A k \in 1..Len(TargetStrings(args, 1)) : IsNumber(TargetStrings(args, 1)[k])

\* the identifiers named by the argument list
TargetIds ==
    {NumberDigits(TargetStrings(args, 1)[k]) : k \in 1..Len(TargetStrings(args, 1))}

\* zero, or not representable as u32
InvalidId(ds) == ds = <<0>> \/ ~DigitsLeq(ds, U32MaxDigits)

\* a SIGTERM was attempted for identifier ds
TermAttempted(ds) ==
    \E l \in logged : l[1] \in {"Sent SIGTERM", "Failed to send SIGTERM"} /\ l[2] = ds

\* C11: a run whose target list holds an invalid identifier (zero or not
\* representable) together with valid ones is not aborted: it ends with a
\* result other than the usage error and every valid target was sent SIGTERM.
C11_InvalidTargetNonFatal ==
    (/\ pc = "done"
     /\ NumericTargets
     /\ \E ds \in TargetIds : InvalidId(ds)
     /\ \E ds \in TargetIds : ~InvalidId(ds)) =>
        /\ exit_code # 1
        /\ \A ds \in TargetIds : ~InvalidId(ds) => TermAttempted(ds)

\* C12: an identifier above the platform's process-id range (i32) is a failed
\* per-target outcome: the run is not aborted, the identifier is never a
\* survivor, and the other targets are sent SIGTERM.
C12_OutOfRangeNonFatal ==
    (/\ pc = "done"
     /\ NumericTargets
     /\ \A ds \in TargetIds : ds # <<0>>
     /\ \E ds \in TargetIds : ~DigitsLeq(ds, I32MaxDigits)) =>
        /\ exit_code # 1
        /\ \A ds \in TargetIds :
               IF DigitsLeq(ds, I32MaxDigits) THEN TermAttempted(ds)
               ELSE /\ <<"Failed to send SIGTERM", ds>> \in logged
                    /\ \A k \in 1..Len(remaining) : remaining[k] # ds
                    /\ \A k \in 1..Len(still_running) : still_running[k] # ds

\* C13: every run ends, with a status in 0..3; main sleeps only inside the
\* poll loop, only while the grace deadline has not been reached, and never
\* after the forceful dispatch has begun.
C13_Terminates ==
    /\ <>(pc = "done" /\ exit_code \in 0..3)
    /\ [][pc' = "sleep" /\ pc # "sleep" =>
              pc = "loop" /\ remaining # <<>> /\ elapsed < grace_period]_vars
    /\ [][(pc \in {"filter", "kill", "done"}) =>
              (pc' \in {"filter", "kill", "done"})]_vars

C13_Witness ==
    /\ pc = "done"
    /\ exit_code = 3
    /\ grace_period > 0
    /\ \E c \in Calls("NULL") : c.at = "poll"
    /\ \E c \in Calls("SIGKILL") : c.res = "EPERM"

\* the SIGTERM attempts of the run, in the order they were made
TermLog == SelectSeq(sent, LAMBDA e : e.sig = "SIGTERM")

\* the SIGKILL attempts of the run, in the order they were made
KillLog == SelectSeq(sent, LAMBDA e : e.sig = "SIGKILL")

\* the identifiers of a part of the log of attempts
LogPids(log) == [k \in 1..Len(log) |-> log[k].pid]

\* the occurrences whose SIGTERM was delivered, in input order
DeliveredOccurrences == LogPids(SelectSeq(TermLog, LAMBDA e : e.result = "Ok"))

\* the k-th SIGTERM attempt is the first one for its identifier
FirstOccurrence(k) == \A j \in 1..(k - 1) : TermLog[j].pid # TermLog[k].pid

\* the argument list was accepted and names at least one target
Accepted == pc # "parse" /\ exit_code # 1

\* C14 as stated, in its last part: a repeated identifier changes nothing, so
\* the status is the one its first occurrences give; when the first SIGTERM
\* attempt for every identifier failed, the run ends with status 2.
C14_DuplicateNeutral ==
    (/\ pc = "done"
     /\ Accepted
     /\ \A k \in 1..Len(TermLog) :
            FirstOccurrence(k) => TermLog[k].result # "Ok") =>
        exit_code = 2

\* C14, amended: SIGTERM is attempted once per occurrence, in input order, as
\* many times as the target list is long; the survivors at the start of the
\* wait are the delivered occurrences, a repeated identifier as often as it
\* was delivered; each occurrence is an attempt of its own, so the run ends
\* with status 2 exactly when no occurrence was delivered.
C14_DuplicatesResignalled ==
    /\ [](Accepted =>
            /\ NumericTargets
            /\ Len(TermLog) <= Len(TargetStrings(args, 1))
            /\ \A k \in 1..Len(TermLog) :
                   TermLog[k].pid = NumberDigits(TargetStrings(args, 1)[k])
            /\ pc # "term" => Len(TermLog) = Len(TargetStrings(args, 1))
            /\ nsent.SIGTERM = Len(TermLog)
            /\ pc = "done" => (exit_code = 2 <=> DeliveredOccurrences = <<>>))
    /\ [][pc = "term" /\ pc' = "loop" =>
              remaining' = DeliveredOccurrences]_vars

C14_Witness ==
    /\ pc = "done"
    /\ \E i, j \in 1..Len(TermLog) :
           /\ i < j
           /\ TermLog[i].pid = TermLog[j].pid
           /\ TermLog[i].result = "Ok"
           /\ TermLog[j].result = "Ok"
    /\ Len(KillLog) = 2
    /\ KillLog[1].pid = KillLog[2].pid

\* the records of a survivor taken for exited, by the poll loop or the re-check
ExitRecords ==
    {l \in logged : l[1] \in {"exited gracefully", "exited before SIGKILL"}}

\* C15: a survivor is removed and recorded as exited, in the poll loop or at
\* the re-check, only when its probe reports that no such process exists; a
\* probe that fails for another reason leaves the target a survivor.
C15_ExitedOnlyIfNotFound ==
    [][\A l \in ExitRecords' \ ExitRecords :
           KillResult(I32TryFrom(l[2])) = "ESRCH"]_vars

\* the elements of list whose mark is TRUE, in order
RECURSIVE Marked(_, _)
Marked(list, marks) ==
    IF list = <<>> \/ marks = <<>> THEN <<>>
    ELSE IF Head(marks) THEN <<Head(list)>> \o Marked(Tail(list), Tail(marks))
    ELSE Marked(Tail(list), Tail(marks))

\* the poll loop has ended with survivors left
LoopEndedWithSurvivors == <<"still running after grace period", <<>>>> \in logged

\* C16: when the poll loop ends with survivors, each of them is probed once
\* more, all of them before the first SIGKILL; the ones the re-check reports
\* not running are dropped, recorded as exited and get no SIGKILL, and SIGKILL
\* is attempted exactly for the ones it reports running, in order.
C16_RecheckBeforeKill ==
    /\ [](/\ ~LoopEndedWithSurvivors => (rechecked = <<>> /\ KillLog = <<>>)
          /\ Len(rechecked) <= Len(remaining)
          /\ KillLog # <<>> => Len(rechecked) = Len(remaining)
          /\ (LoopEndedWithSurvivors /\ pc \in {"kill", "done"}) =>
                 /\ remaining # <<>>
                 /\ Len(rechecked) = Len(remaining)
                 /\ still_running = Marked(remaining, rechecked)
                 /\ \A k \in 1..Len(remaining) :
                        ~rechecked[k] =>
                            <<"exited before SIGKILL", remaining[k]>> \in logged
          /\ Len(KillLog) <= Len(still_running)
          /\ \A k \in 1..Len(KillLog) : KillLog[k].pid = still_running[k]
          /\ (LoopEndedWithSurvivors /\ pc = "done") =>
                 LogPids(KillLog) = Marked(remaining, rechecked))
    /\ [][Len(rechecked') > Len(rechecked) =>
              /\ pc = "filter"
              /\ Len(rechecked') = idx
              /\ rechecked'[idx] = (KillResult(I32TryFrom(remaining[idx])) = "OK")
              /\ \E c \in calls' :
                     /\ c.sig = "NULL"
                     /\ c.at = "recheck"
                     /\ c.pid = I32TryFrom(remaining[idx])]_vars

C16_Witness ==
    /\ pc = "done"
    /\ Len(rechecked) = 2
    /\ rechecked[1]
    /\ ~rechecked[2]
    /\ Len(KillLog) = 1
    /\ \E c \in Calls("NULL") : c.at = "recheck" /\ c.res = "ESRCH"

\* two runs have issued the same dispatches and probes, with the same results,
\* and stand at the same place
SameDispatches(a, b) ==
    /\ a.sent = b.sent
    /\ a.calls = b.calls
    /\ a.rechecked = b.rechecked
    /\ a.nsent = b.nsent
    /\ a.pc = b.pc
    /\ a.idx = b.idx
    /\ a.acc = b.acc
    /\ a.pids = b.pids
    /\ a.grace_period = b.grace_period
    /\ a.remaining = b.remaining
    /\ a.still_running = b.still_running
    /\ a.elapsed = b.elapsed

\* the status of the run with the option is that of the run without it,
\* except that 3 replaces 0
ThreeForZero(without, with) ==
    \/ with.exit_code = without.exit_code
    \/ without.exit_code = 0 /\ with.exit_code = 3

\* C17: two runs with the same targets, grace duration and target behaviour
\* that differ only in the escalation-policy option issue the same SIGTERM
\* dispatches, liveness probes and SIGKILL dispatches, step for step, and
\* their exit statuses differ only in that 3 replaces 0.
C17_OptionOnlyStatus ==
    /\ twin.turn = "sync" =>
           /\ SameDispatches(Run, twin.run)
           /\ ThreeForZero(Run, twin.run)
    /\ twin.turn = "followed" =>
           /\ SameDispatches(twin.run, Run)
           /\ ThreeForZero(twin.run, Run)
    /\ twin.turn = "follow" => pc # "done"
    /\ twin.turn = "followTick" =>
           (Waiting /\ elapsed < grace_period + MaxOvershoot)

C17_Witness ==
    /\ twin.turn = "sync"
    /\ pc = "done"
    /\ exit_code = 0
    /\ twin.run.exit_code = 3
    /\ ~exit_non_zero_if_sigkill_required
    /\ twin.run.exit_non_zero_if_sigkill_required
    /\ KillLog # <<>>
    /\ \E c \in Calls("NULL") : c.at = "poll"

\* a is b with some elements left out: a sub-collection, the order preserved
RECURSIVE IsSubSeq(_, _)
IsSubSeq(a, b) ==
    IF a = <<>> THEN TRUE
    ELSE IF b = <<>> THEN FALSE
    ELSE IF Head(a) = Head(b) THEN IsSubSeq(Tail(a), Tail(b))
    ELSE IsSubSeq(a, Tail(b))

\* C18: the survivor set only shrinks: it is always a sub-collection, in
\* order, of the targets whose SIGTERM was delivered; once the wait has begun
\* no step adds an identifier to it or puts one back; and the list given to
\* the forceful dispatch is a sub-collection of the survivors the poll loop
\* ended with.
C18_SurvivorsOnlyShrink ==
    /\ [](/\ IsSubSeq(remaining, DeliveredOccurrences)
          /\ IsSubSeq(still_running, remaining)
          /\ pc \in {"retain", "filter"} =>
                 IsSubSeq(acc, SubSeq(remaining, 1, idx - 1))
          /\ \A k \in 1..Len(KillLog) :
                 \E j \in 1..Len(remaining) : remaining[j] = KillLog[k].pid)
    /\ [][/\ pc # "term" => IsSubSeq(remaining', remaining)
          /\ pc = "kill" => still_running' = still_running]_vars

C18_Witness ==
    /\ pc = "done"
    /\ Len(DeliveredOccurrences) = 2
    /\ Len(remaining) = 1
    /\ still_running = <<>>
    /\ \E c \in Calls("NULL") : c.at = "poll" /\ c.res = "ESRCH"
    /\ \E c \in Calls("NULL") : c.at = "recheck" /\ c.res = "ESRCH"

\* the forceful dispatch has sent its last SIGKILL
KillDispatchOver == pc = "done" \/ (pc = "kill" /\ idx > Len(still_running))

\* C19: signals are never retried.  The SIGTERM attempts are the occurrences
\* of the target list, one each, and the SIGKILL attempts are the occurrences
\* of the re-checked list, one each, delivered or not; a failed SIGKILL is
\* reported; and once the forceful dispatch is over, no signal is sent and no
\* probe is made before the process exits.
C19_NoRetry ==
    /\ [](/\ Len(TermLog) <= Len(pids)
          /\ LogPids(TermLog) = SubSeq(pids, 1, Len(TermLog))
          /\ Len(KillLog) <= Len(still_running)
          /\ LogPids(KillLog) = SubSeq(still_running, 1, Len(KillLog))
          /\ sent = TermLog \o KillLog
          /\ nsent.SIGTERM = Len(TermLog)
          /\ nsent.SIGKILL = Len(KillLog)
          /\ \A k \in 1..Len(KillLog) :
                 KillLog[k].result # "Ok" =>
                     <<"Failed to send SIGKILL", KillLog[k].pid>> \in logged)
    /\ [][KillDispatchOver =>
              /\ sent' = sent
              /\ calls' = calls
              /\ nsent' = nsent
              /\ rechecked' = rechecked
              /\ pc' \in {pc, "done"}]_vars

C19_Witness ==
    /\ pc = "done"
    /\ Len(KillLog) = 2
    /\ KillLog[1].result = "Permission denied"
    /\ KillLog[2].result = "Process not found"
    /\ <<"Failed to send SIGKILL", KillLog[1].pid>> \in logged

====
